---- MODULE Spec2Model ----
(***************************************************************************)
(* TubeSync: the uploader (tubesync_synology.py), one orchestration pass   *)
(* per process, and the watcher (tubesync_watcher.py) that schedules it.   *)
(*                                                                         *)
(* Spec  : passes of the uploader, one after the other, over the ledger,   *)
(*         the pause file, one watched file and the remote platform, with  *)
(*         the clock, the file and the platform changing at any moment.    *)
(* SpecU : the same passes over a file that is present and an environment  *)
(*         that stands still, with every exception next_chunk can raise.   *)
(* SpecW : the threads of the watcher (main, event listener, debounce      *)
(*         timers, periodic rescan) that start uploader processes.         *)
(* SpecB : the watcher where PAUSE_FLAG never exists.                      *)
(* SpecWF: SpecW under fair scheduling of its timers and threads.          *)
(* SpecQ : SpecB while the quota pause of the uploader is in force.        *)
(* SpecL : calls of db_upsert and runs of revalidate_done_entries on the    *)
(*         table uploads with all its columns.                             *)
(* SpecT : passes of the uploader over two files that are both present.    *)
(***************************************************************************)
EXTENDS Integers, Sequences, FiniteSets, TLC

\* ------------------------------------------------------------------ bounds
MaxTime == 60             \* the uploader's clock stops advancing here
MaxUploads == 2           \* transfers per fingerprint of a path, videos per title
MaxRetriesBound == 2      \* largest configured max_retries
MaxMtime == 2             \* largest st_mtime, in units of 1/MtimeScale s
MaxCooldown == 1          \* largest configured quota_cooldown_minutes
MaxWTime == 7             \* the watcher's clock stops advancing here
MaxTimers == 3            \* threading.Timer threads alive at once
MaxCalls == 3             \* calls of db_upsert on the table of SpecL
DebounceSeconds == 2      \* [watcher] debounce_seconds
SettleSeconds == 1        \* [watcher] settle_seconds
MaxDebounceSeconds == 4   \* [watcher] max_debounce_seconds
RescanSeconds == 3        \* max(1, rescan_minutes) * 60, in ticks of the watcher's clock

\* ------------------------------------------------------- program constants
SecondsPerMinute == 60
Backoff == 2
MtimeScale == 2           \* instants per second that st_mtime tells apart
Null == -1                \* Python None / SQL NULL in a numeric column

NULL == "NULL"            \* SQL NULL in a text column
NoVid == <<>>             \* video_id IS NULL
MissingNote == "Missing on YouTube; scheduled for re-upload"

Paths == {"Clip.mp4", "b.mov"}
Sizes == {1, 2}           \* st_size, in chunks of chunk_mb
Mtimes == 0..MaxMtime
Cooldowns == 0..MaxCooldown
TickStep == SecondsPerMinute

TransientStatuses == {500, 502, 503, 504}
QuotaStatuses == {400, 403, 429}
HttpStatuses == {401, 403, 404, 429, 500, 501, 503}
QuotaKeys == {"quotaexceeded", "userratelimitexceeded", "dailylimitexceeded", "uploadlimitexceeded"}

\* str.lower() on the strings of the model
Lower(s) ==
  CASE s = "quotaExceeded" -> "quotaexceeded"
    [] s = "uploadLimitExceeded" -> "uploadlimitexceeded"
    [] s = "backendError" -> "backenderror"
    [] s = "Clip" -> "clip"
    [] s = "CLIP" -> "clip"
    [] OTHER -> s

\* Path.stem
Stem(p) ==
  CASE p = "Clip.mp4" -> "Clip"
    [] p = "b.mov" -> "b"
    [] OTHER -> p

\* a title key that keeps the case of the stem
TitleKey_M(p) == Stem(p)

\* title.strip().lower()
TitleKey(p) == Lower(Stem(p))

\* int(st_mtime)
IntSec(m) == m \div MtimeScale

Max(a, b) == IF a >= b THEN a ELSE b

\* an exception raised by request.next_chunk(): kind "http" is HttpError or
\* ResumableUploadError (resp.status = sc, the reasons of its JSON content, the
\* words of str(exc)), kind "other" is any other exception (no resp, no content)
NoExc == [kind |-> "none", sc |-> 0, reasons |-> {}, msg |-> {}]
HttpExcs == [kind : {"http"}, sc : HttpStatuses,
             reasons : {{}, {"quotaExceeded"}, {"backendError"}},
             msg : {{"failed"}, {"uploadLimitExceeded"}}]
OtherExcs == [kind : {"other"}, sc : {0}, reasons : {{}},
              msg : {{"failed"}, {"uploadLimitExceeded"}}]
Excs == HttpExcs \cup OtherExcs

\* one exception of each class the engine tells apart
ExcClasses ==
  {[kind |-> "http", sc |-> 403, reasons |-> {"quotaExceeded"}, msg |-> {"failed"}],
   [kind |-> "http", sc |-> 503, reasons |-> {"backendError"}, msg |-> {"failed"}],
   [kind |-> "http", sc |-> 404, reasons |-> {}, msg |-> {"failed"}],
   [kind |-> "other", sc |-> 0, reasons |-> {}, msg |-> {"failed"}]}

_parse_error_reasons(exc) ==
  {Lower(r) : r \in exc.reasons} \cup
  {k \in QuotaKeys : \E w \in exc.msg : Lower(w) = k}

_is_quota_reason(reasons) == \E k \in QuotaKeys : k \in reasons

\* a video that was on the channel before the ledger existed
ExtVid == <<"CLIP", 1>>

\* the identifiers the platform hands out
Vids == {<<Stem(p), n>> : p \in Paths, n \in 1..MaxUploads}

Absent == [size |-> Null, mtime |-> Null]
NewFile == [size |-> 1, mtime |-> 0]
\* a write changes the size or the modification time of a new file
Files == {f \in [size : Sizes, mtime : Mtimes] : f.size = NewFile.size \/ f.mtime = NewFile.mtime}

VARIABLES
  now,        \* time.time(), seconds
  pauseFile,  \* content of .pause_until, Null when the file does not exist
  db,         \* table uploads: path -> row
  tree,       \* the names files under source_dirs can have
  fs,         \* the watched files: path -> (st_size, st_mtime) or Absent
  yt,         \* video ids that exist on the platform; a video is <<title, n>>
  xfers,      \* path -> transfers the engine completed for the file's present fingerprint
  pc,         \* position of the running uploader process, "idle" when none runs
  cfg,        \* the options the running pass read
  titles,     \* existing_title_map of the running pass
  todo,       \* paths discover_files has not yielded yet
  cur,        \* the file of the current iteration
  fp,         \* (size, mtime) of cur as stat'ed at the top of the iteration
  old_status, \* status of the row db_get returned for cur, "none" when it returned None
  retry,      \* resumable_upload: retry
  chunk,      \* resumable_upload: chunks the remote acknowledged
  ret,        \* the value resumable_upload returned
  failed,     \* paths whose iteration ended in the generic except of this pass
  ev,         \* the last step the uploader took
  mpc,        \* watcher, main thread
  rpc,        \* watcher, _rescan_loop thread
  rwake,      \* when the sleep of _rescan_loop ends
  lpc,        \* watcher, observer thread (Handler.on_* -> trigger)
  trigNow,    \* trigger: now, read before the lock is taken
  timers,     \* the threading.Timer threads: id -> state and due time
  timerRef,   \* self._timer, 0 for None
  first,      \* self._first_event_ts
  last,       \* self._last_event_ts
  lock,       \* self._lock: 0 when free, else the timer that holds it
  flag        \* PAUSE_FLAG.exists()

passVars == <<cfg, titles, todo, cur, fp, old_status, retry, chunk, ret, failed>>
uvars == <<pauseFile, db, tree, fs, yt, xfers, pc, passVars, ev>>
wvars == <<mpc, rpc, rwake, lpc, trigNow, timers, timerRef, first, last, lock, flag>>
vars == <<now, uvars, wvars>>

\* the options of config.ini a pass reads after revalidation: a pass is a new
\* process and loads the file anew (reupload_if_missing_on_youtube is read by
\* revalidate_done_entries, quota_cooldown_minutes by the quota handler)
Configs == [hydrate : BOOLEAN, max_retries : 0..MaxRetriesBound]
\* the configurations with no retry and with the most retries
ConfigEnds == {c \in Configs : c.max_retries \in {0, MaxRetriesBound}}
NoCfg == [hydrate |-> FALSE, max_retries |-> 0]
EmptyMap == [k \in {} |-> NoVid]

\* op: the step; p: its file; exc, retry0, chunk0, max: the exception next_chunk
\* raised, retry and chunk before it, and max_retries; sleep: the argument of
\* time.sleep; cooldown, at: quota_cooldown_minutes and time.time() of set_pause
Ev(op, p, exc, sl, cd, at) ==
  [op |-> op, p |-> p, exc |-> exc, retry0 |-> retry, chunk0 |-> chunk,
   max |-> cfg.max_retries, sleep |-> sl, cooldown |-> cd, at |-> at]
Ev0(op, p) ==
  [op |-> op, p |-> p, exc |-> NoExc, retry0 |-> 0, chunk0 |-> 0, max |-> 0,
   sleep |-> 0, cooldown |-> 0, at |-> 0]

\* ------------------------------------------------------------ the ledger
Row(size, mtime, status, video_id, error) ==
  [size |-> size, mtime |-> mtime, status |-> status, video_id |-> video_id, error |-> error]

db_upsert(d, p, size, mtime, status, video_id, error) ==
  [q \in DOMAIN d \cup {p} |->
     IF q = p THEN Row(size, mtime, status, video_id, error) ELSE d[q]]

\* ------------------------------------------------------------ quota pause
\* a check_pause that never finds a pause in force
check_pause_M(pf, t) == Null

\* the value check_pause returns; the file is unlinked when it returns None
check_pause(pf, t) == IF pf # Null /\ t < pf THEN pf ELSE Null

\* a set_pause without the floor of one minute
set_pause_M(t, minutes) == t + minutes * SecondsPerMinute

set_pause(t, minutes) == t + Max(1, minutes) * SecondsPerMinute

\* the variables of a process that is not running
PassReset ==
  /\ cfg' = NoCfg
  /\ titles' = EmptyMap
  /\ todo' = {}
  /\ cur' = "none"
  /\ fp' = Absent
  /\ old_status' = "none"
  /\ retry' = 0
  /\ chunk' = 0
  /\ ret' = NoVid
  /\ failed' = {}

NoTimer == [st |-> "free", due |-> 0]

InitW ==
  /\ mpc = "scan"
  /\ rpc = "sleep"
  /\ rwake = RescanSeconds
  /\ lpc = "idle"
  /\ trigNow = 0
  /\ timers = [i \in 1..MaxTimers |-> NoTimer]
  /\ timerRef = 0
  /\ first = Null
  /\ last = Null
  /\ lock = 0
  /\ flag \in BOOLEAN

InitPass ==
  /\ pc = "idle"
  /\ cfg = NoCfg
  /\ titles = EmptyMap
  /\ todo = {}
  /\ cur = "none"
  /\ fp = Absent
  /\ old_status = "none"
  /\ retry = 0
  /\ chunk = 0
  /\ ret = NoVid
  /\ failed = {}
  /\ ev = Ev0("init", "none")

Init ==
  /\ now = 0
  /\ pauseFile = Null
  /\ db = [p \in {} |-> Row(Null, Null, "pending", NoVid, NULL)]
  /\ tree = {"Clip.mp4"}
  /\ fs = [p \in Paths |-> Absent]
  /\ yt = {}
  /\ xfers = [p \in Paths |-> 0]
  /\ InitPass
  /\ InitW
  /\ flag = FALSE

\* ------------------------------------------------------------ environment
Tick ==
  /\ now + TickStep <= MaxTime
  /\ now' = now + TickStep
  /\ UNCHANGED <<uvars, wvars>>

\* a file is created or written
FsWrite(p) ==
  /\ p \in tree
  /\ \E f \in Files :
       /\ f # fs[p]
       /\ fs' = [fs EXCEPT ![p] = f]
  /\ xfers' = [xfers EXCEPT ![p] = 0]
  /\ UNCHANGED <<now, pauseFile, db, tree, yt, pc, passVars, ev, wvars>>

FsDelete(p) ==
  /\ fs[p] # Absent
  /\ fs' = [fs EXCEPT ![p] = Absent]
  /\ xfers' = [xfers EXCEPT ![p] = 0]
  /\ UNCHANGED <<now, pauseFile, db, tree, yt, pc, passVars, ev, wvars>>

\* a video is removed from the channel
RemoteDelete(v) ==
  /\ v \in yt
  /\ yt' = yt \ {v}
  /\ UNCHANGED <<now, pauseFile, db, tree, fs, xfers, pc, passVars, ev, wvars>>

\* ---------------------------------------------------------- uploader: main
\* main, lines 465-488: check_pause, ensure_db, get_authenticated_service
StartPass ==
  /\ pc = "idle"
  /\ IF check_pause(pauseFile, now) # Null
       THEN /\ ev' = Ev0("paused", "none")
            /\ UNCHANGED <<pauseFile, pc, passVars>>
       ELSE /\ pauseFile' = Null
            /\ \E authOk \in BOOLEAN :
                 IF authOk
                   THEN /\ pc' = "reval"
                        /\ ev' = Ev0("start", "none")
                   ELSE /\ pc' = pc
                        /\ ev' = Ev0("authfail", "none")
            /\ UNCHANGED passVars
  /\ UNCHANGED <<now, db, tree, fs, yt, xfers, wvars>>

\* revalidate_done_entries, called under try/except at lines 491-494
RevalidateRows == {p \in DOMAIN db : db[p].status = "done" /\ db[p].video_id # NoVid}

\* a revalidation that resets nothing
revalidate_done_entries_M(d, existing) == d

revalidate_done_entries(d, existing) ==
  [p \in DOMAIN d |->
     IF p \in RevalidateRows /\ d[p].video_id \notin existing
       THEN Row(fs[p].size, fs[p].mtime, "pending", NoVid, MissingNote)
       ELSE d[p]]

Revalidate ==
  /\ pc = "reval"
  /\ \E reupload_flag \in BOOLEAN :
       IF reupload_flag /\ RevalidateRows # {}
         THEN \E fetchOk \in BOOLEAN :
                /\ db' = IF fetchOk THEN revalidate_done_entries(db, yt) ELSE db
                /\ ev' = Ev0(IF fetchOk THEN "reval" ELSE "reval-failed", "none")
         ELSE /\ db' = db
              /\ ev' = Ev0("reval-off", "none")
  /\ pc' = "hydrate"
  /\ UNCHANGED <<now, pauseFile, tree, fs, yt, xfers, passVars, wvars>>

\* fetch_existing_titles: { title.strip().lower(): video_id }, a later playlist
\* item with the same key replaces an earlier one
fetch_existing_titles ==
  LET keys == {Lower(v[1]) : v \in yt}
  IN {f \in [keys -> yt] : \A k \in keys : Lower(f[k][1]) = k}

\* a pass that ends when the title listing fails
Hydrate_M(c) ==
  /\ pc = "hydrate"
  /\ IF c.hydrate
       THEN \E fetchOk \in BOOLEAN :
              IF fetchOk
                THEN /\ cfg' = c
                     /\ titles' \in fetch_existing_titles
                     /\ todo' = Paths
                     /\ pc' = "loop"
                     /\ ev' = Ev0("hydrate", "none")
                     /\ UNCHANGED <<cur, fp, old_status, retry, chunk, ret, failed>>
                ELSE /\ pc' = "idle"
                     /\ PassReset
                     /\ ev' = Ev0("hydrate-failed", "none")
       ELSE /\ cfg' = c
            /\ titles' = EmptyMap
            /\ todo' = Paths
            /\ pc' = "loop"
            /\ ev' = Ev0("hydrate-off", "none")
            /\ UNCHANGED <<cur, fp, old_status, retry, chunk, ret, failed>>
  /\ UNCHANGED <<now, pauseFile, db, tree, fs, yt, xfers, wvars>>

\* lines 496-528: hydration, then the options of the loop
Hydrate(c) ==
  /\ pc = "hydrate"
  /\ cfg' = c
  /\ IF c.hydrate
       THEN \E fetchOk \in BOOLEAN :
              IF fetchOk
                THEN /\ titles' \in fetch_existing_titles
                     /\ ev' = Ev0("hydrate", "none")
                ELSE /\ titles' = EmptyMap
                     /\ ev' = Ev0("hydrate-failed", "none")
       ELSE /\ titles' = EmptyMap
            /\ ev' = Ev0("hydrate-off", "none")
  /\ todo' = Paths
  /\ pc' = "loop"
  /\ UNCHANGED <<now, pauseFile, db, tree, fs, yt, xfers, cur, fp, old_status, retry, chunk, ret,
                 failed, wvars>>

\* an "unchanged" test that never holds
Unchanged_M(row, st) == FALSE

\* the "unchanged since last Done" test, line 543 (use_sha1 off)
Unchanged(row, st) ==
  row.size = st.size /\ IntSec(row.mtime) = IntSec(st.mtime)

\* an iteration that calls resumable_upload without writing the row first
LoopStep_M(p) ==
  /\ pc = "loop"
  /\ p \in todo
  /\ fs[p] # Absent
  /\ LET st == fs[p]
     IN IF p \in DOMAIN db /\ db[p].status = "done" /\ Unchanged(db[p], st)
          THEN /\ todo' = todo \ {p}
               /\ ev' = Ev0("skip", p)
               /\ UNCHANGED <<db, pc, cfg, titles, cur, fp, old_status, retry, chunk, ret>>
          ELSE IF cfg.hydrate /\ TitleKey(p) \in DOMAIN titles
            THEN /\ db' = db_upsert(db, p, st.size, st.mtime, "done", titles[TitleKey(p)], NULL)
                 /\ todo' = todo \ {p}
                 /\ ev' = Ev0("marked", p)
                 /\ UNCHANGED <<pc, cfg, titles, cur, fp, old_status, retry, chunk, ret>>
            ELSE /\ pc' = "upload"
                 /\ cur' = p
                 /\ fp' = st
                 /\ old_status' = IF p \in DOMAIN db THEN db[p].status ELSE "none"
                 /\ retry' = 0
                 /\ chunk' = 0
                 /\ ev' = Ev0("begin", p)
                 /\ UNCHANGED <<db, todo, cfg, titles, ret>>
  /\ UNCHANGED <<now, pauseFile, tree, fs, yt, xfers, failed, wvars>>

\* one iteration of the for loop up to the call of resumable_upload, lines 530-561
LoopStep(p) ==
  /\ pc = "loop"
  /\ p \in todo
  /\ fs[p] # Absent
  /\ LET st == fs[p]
     IN IF p \in DOMAIN db /\ db[p].status = "done" /\ Unchanged(db[p], st)
          THEN /\ todo' = todo \ {p}
               /\ ev' = Ev0("skip", p)
               /\ UNCHANGED <<db, pc, cfg, titles, cur, fp, old_status, retry, chunk, ret>>
          ELSE IF cfg.hydrate /\ TitleKey(p) \in DOMAIN titles
            THEN /\ db' = db_upsert(db, p, st.size, st.mtime, "done", titles[TitleKey(p)], NULL)
                 /\ todo' = todo \ {p}
                 /\ ev' = Ev0("marked", p)
                 /\ UNCHANGED <<pc, cfg, titles, cur, fp, old_status, retry, chunk, ret>>
            ELSE /\ db' = db_upsert(db, p, st.size, st.mtime, "pending", NoVid, NULL)
                 /\ pc' = "upload"
                 /\ cur' = p
                 /\ fp' = st
                 /\ old_status' = IF p \in DOMAIN db THEN db[p].status ELSE "none"
                 /\ retry' = 0
                 /\ chunk' = 0
                 /\ ev' = Ev0("begin", p)
                 /\ UNCHANGED <<todo, cfg, titles, ret>>
  /\ UNCHANGED <<now, pauseFile, tree, fs, yt, xfers, failed, wvars>>

\* str(e), the text of an exception: a string, never NULL
ErrText == "str(e)"

\* except Exception, lines 585-602: the row is written as error with a fresh
\* stat; a send_email that raises here ends the process
ErrorHandler(p, mailOk) ==
  /\ db' = db_upsert(db, p, fs[p].size, fs[p].mtime, "error", NoVid, ErrText)
  /\ IF mailOk
       THEN /\ pc' = "loop"
            /\ todo' = todo \ {p}
            /\ cur' = "none"
            /\ fp' = Absent
            /\ old_status' = "none"
            /\ retry' = 0
            /\ chunk' = 0
            /\ ret' = NoVid
            /\ failed' = failed \cup {p}
            /\ UNCHANGED <<cfg, titles>>
       ELSE /\ pc' = "idle"
            /\ PassReset

\* ------------------------------------------------ uploader: resumable_upload
\* the identifier the platform gives a new video: one no video has and no row names
NewVids(title) ==
  LET free == {n \in 1..MaxUploads :
                 /\ <<title, n>> \notin yt
                 /\ \A q \in DOMAIN db : db[q].video_id # <<title, n>>}
  IN {<<title, n>> : n \in {m \in free : \A k \in free : m <= k}}

\* number of chunks of the media body
NChunks(st) == st.size

\* a quota test that knows status 403 only
IsQuota_M(exc) == exc.sc = 403 /\ _is_quota_reason(_parse_error_reasons(exc))

\* line 375: the error is a quota error
IsQuota(exc) == exc.sc \in QuotaStatuses /\ _is_quota_reason(_parse_error_reasons(exc))

\* a transient test that takes every status from 500 up
IsTransient_M(exc) == exc.sc >= 500

\* line 379: the error is a temporary one
IsTransient(exc) == exc.sc \in TransientStatuses

\* a retry budget that is one too large
MayRetry_M(r, max_retries) == r <= max_retries

\* lines 379 and 388: retry budget left
MayRetry(r, max_retries) == r < max_retries

\* lines 381 and 390: sleep_s = backoff ** retry
SleepSeconds(r) == Backoff ^ r

\* a chunk that is accepted gives the retry budget back
ChunkProgress_Reset ==
  /\ pc = "upload"
  /\ chunk + 1 < NChunks(fp)
  /\ chunk' = chunk + 1
  /\ retry' = 0
  /\ ev' = Ev0("progress", cur)
  /\ UNCHANGED <<now, pauseFile, db, tree, fs, yt, xfers, pc, cfg, titles, todo, cur, fp,
                 old_status, ret, failed, wvars>>

\* next_chunk returns (status, None): more chunks needed
ChunkProgress ==
  /\ pc = "upload"
  /\ chunk + 1 < NChunks(fp)
  /\ chunk' = chunk + 1
  /\ ev' = Ev0("progress", cur)
  /\ UNCHANGED <<now, pauseFile, db, tree, fs, yt, xfers, pc, cfg, titles, todo, cur, fp,
                 old_status, retry, ret, failed, wvars>>

\* next_chunk returns a response with "id": return response["id"], line 366
ChunkComplete ==
  /\ pc = "upload"
  /\ chunk + 1 = NChunks(fp)
  /\ xfers[cur] < MaxUploads
  /\ \E vid \in NewVids(Stem(cur)) :
       /\ yt' = yt \cup {vid}
       /\ ret' = vid
  /\ xfers' = [xfers EXCEPT ![cur] = @ + 1]
  /\ chunk' = chunk + 1
  /\ pc' = "returned"
  /\ ev' = Ev0("returned", cur)
  /\ UNCHANGED <<now, pauseFile, db, tree, fs, cfg, titles, todo, cur, fp, old_status, retry,
                 failed, wvars>>

\* next_chunk returns a response without "id": RuntimeError at line 368, caught
\* by the except Exception of line 387; after `continue` the loop condition
\* `response is None` is false and the function falls off its end
ChunkNoId ==
  /\ pc = "upload"
  /\ chunk + 1 = NChunks(fp)
  /\ IF MayRetry(retry, cfg.max_retries)
       THEN /\ retry' = retry + 1
            /\ ret' = NoVid
            /\ pc' = "returned"
            /\ ev' = Ev("noid", cur, NoExc, SleepSeconds(retry + 1), 0, 0)
            /\ UNCHANGED <<db, cfg, titles, todo, cur, fp, old_status, chunk, failed>>
       ELSE /\ \E mailOk \in BOOLEAN : ErrorHandler(cur, mailOk)
            /\ ev' = Ev("error", cur, NoExc, 0, 0, 0)
  /\ UNCHANGED <<now, pauseFile, tree, fs, yt, xfers, wvars>>

\* a quota handler without the return: the loop goes on with the next file
QuotaAbort_Continue(exc) ==
  /\ \E cd \in Cooldowns :
       /\ pauseFile' = set_pause(now, cd)
       /\ ev' = Ev("quota", cur, exc, 0, cd, now)
  /\ pc' = "loop"
  /\ todo' = todo \ {cur}
  /\ cur' = "none"
  /\ fp' = Absent
  /\ old_status' = "none"
  /\ retry' = 0
  /\ chunk' = 0
  /\ ret' = NoVid
  /\ UNCHANGED <<db, cfg, titles, failed>>

\* a quota handler that writes the row as the generic handler does
QuotaAbort_M(exc) ==
  /\ \E cd \in Cooldowns :
       /\ pauseFile' = set_pause(now, cd)
       /\ ev' = Ev("quota", cur, exc, 0, cd, now)
  /\ pc' = "idle"
  /\ PassReset
  /\ db' = db_upsert(db, cur, fs[cur].size, fs[cur].mtime, "error", NoVid, ErrText)

\* except QuotaExceeded, lines 571-583: set_pause, send_email, return
QuotaAbort(exc) ==
  /\ \E cd \in Cooldowns :
       /\ pauseFile' = set_pause(now, cd)
       /\ ev' = Ev("quota", cur, exc, 0, cd, now)
  /\ pc' = "idle"
  /\ PassReset
  /\ UNCHANGED db

\* retry += 1; time.sleep(backoff ** retry); continue
RetryChunk(exc) ==
  /\ retry' = retry + 1
  /\ ev' = Ev("retry", cur, exc, SleepSeconds(retry + 1), 0, 0)
  /\ UNCHANGED <<pauseFile, db, pc, cfg, titles, todo, cur, fp, old_status, chunk, ret, failed>>

\* raise: the exception leaves resumable_upload and reaches the generic except of main
Surface(exc) ==
  /\ \E mailOk \in BOOLEAN : ErrorHandler(cur, mailOk)
  /\ ev' = Ev("error", cur, exc, 0, 0, 0)
  /\ UNCHANGED pauseFile

\* next_chunk raises exc: the two except clauses of resumable_upload, lines 370-394
ChunkFails(exc) ==
  /\ pc = "upload"
  /\ IF exc.kind = "http"
       THEN IF IsQuota(exc)
              THEN QuotaAbort(exc)
              ELSE IF IsTransient(exc) /\ MayRetry(retry, cfg.max_retries)
                     THEN RetryChunk(exc)
                     ELSE Surface(exc)
       ELSE IF MayRetry(retry, cfg.max_retries)
              THEN RetryChunk(exc)
              ELSE Surface(exc)
  /\ UNCHANGED <<now, tree, fs, yt, xfers, wvars>>

\* line 562: the row is written as done with the value resumable_upload returned
FinishUpload ==
  /\ pc = "returned"
  /\ db' = db_upsert(db, cur, fp.size, fp.mtime, "done", ret, NULL)
  /\ pc' = "notify"
  /\ ev' = Ev0("done", cur)
  /\ UNCHANGED <<now, pauseFile, tree, fs, yt, xfers, passVars, wvars>>

\* line 568: send_email inside the try; over SMTP it raises on failure, and
\* the generic except then handles the exception
Notify ==
  /\ pc = "notify"
  /\ \E sent \in BOOLEAN :
       IF sent
         THEN /\ pc' = "loop"
              /\ todo' = todo \ {cur}
              /\ cur' = "none"
              /\ fp' = Absent
              /\ old_status' = "none"
              /\ retry' = 0
              /\ chunk' = 0
              /\ ret' = NoVid
              /\ ev' = Ev0("notified", cur)
              /\ UNCHANGED <<db, cfg, titles, failed>>
         ELSE /\ \E mailOk \in BOOLEAN : ErrorHandler(cur, mailOk)
              /\ ev' = Ev0("mailerror", cur)
  /\ UNCHANGED <<now, pauseFile, tree, fs, yt, xfers, wvars>>

\* the generator is exhausted: summary, lines 604-613
EndPass ==
  /\ pc = "loop"
  /\ \A p \in todo : fs[p] = Absent
  /\ pc' = "idle"
  /\ PassReset
  /\ ev' = Ev0("endpass", "none")
  /\ UNCHANGED <<now, pauseFile, db, tree, fs, yt, xfers, wvars>>

\* the process is killed
Crash ==
  /\ pc # "idle"
  /\ pc' = "idle"
  /\ PassReset
  /\ ev' = Ev0("crash", cur)
  /\ UNCHANGED <<now, pauseFile, db, tree, fs, yt, xfers, wvars>>

Next ==
  \/ Tick
  \/ \E p \in Paths : FsWrite(p)
  \/ \E p \in Paths : FsDelete(p)
  \/ \E v \in Vids : RemoteDelete(v)
  \/ StartPass
  \/ Revalidate
  \/ \E c \in ConfigEnds : Hydrate(c)
  \/ \E p \in Paths : LoopStep(p)
  \/ ChunkProgress
  \/ ChunkComplete
  \/ ChunkNoId
  \/ \E exc \in ExcClasses : ChunkFails(exc)
  \/ FinishUpload
  \/ Notify
  \/ EndPass
  \/ Crash

Spec == Init /\ [][Next]_vars

\* ------------------------------------------------------------------ SpecU
InitU ==
  /\ now = 0
  /\ pauseFile = Null
  /\ db = [p \in {} |-> Row(Null, Null, "pending", NoVid, NULL)]
  /\ tree = {"Clip.mp4"}
  /\ fs \in {[p \in Paths |-> IF p = "Clip.mp4" THEN f ELSE Absent] : f \in Files}
  /\ yt \in {{}, {ExtVid}}
  /\ xfers = [p \in Paths |-> 0]
  /\ InitPass
  /\ InitW
  /\ flag = FALSE

NextU ==
  \/ StartPass
  \/ Revalidate
  \/ \E c \in Configs : Hydrate(c)
  \/ \E p \in Paths : LoopStep(p)
  \/ ChunkProgress
  \/ ChunkComplete
  \/ ChunkNoId
  \/ \E exc \in Excs : ChunkFails(exc)
  \/ FinishUpload
  \/ Notify
  \/ EndPass

SpecU == InitU /\ [][NextU]_vars

\* ------------------------------------------------------------------ SpecT
\* passes of the uploader over two files that are both present, with an
\* environment that stands still
InitT ==
  /\ now = 0
  /\ pauseFile = Null
  /\ db = [p \in {} |-> Row(Null, Null, "pending", NoVid, NULL)]
  /\ tree = Paths
  /\ fs \in {[p \in Paths |-> f] : f \in {g \in Files : g.mtime = NewFile.mtime}}
  /\ yt = {}
  /\ xfers = [p \in Paths |-> 0]
  /\ InitPass
  /\ InitW
  /\ flag = FALSE

NextT ==
  \/ StartPass
  \/ Revalidate
  \/ \E c \in ConfigEnds : Hydrate(c)
  \/ \E p \in Paths : LoopStep(p)
  \/ ChunkProgress
  \/ ChunkComplete
  \/ ChunkNoId
  \/ \E exc \in ExcClasses : ChunkFails(exc)
  \/ FinishUpload
  \/ Notify
  \/ EndPass

SpecT == InitT /\ [][NextT]_vars

\* ------------------------------------------------------------------ SpecW
\* the uploader processes the watcher starts are seen from outside: a process
\* runs from subprocess.Popen to the return of proc.wait()
\* (_activity_loop only writes log lines and changes no state: it has no action)

\* the clock of the watcher; a timer whose interval has elapsed, a sleep that
\* has ended and a thread that wants the lock while it is free are served
\* before the clock moves on
WTick ==
  /\ mpc # "exit"
  /\ now < MaxWTime
  /\ \A i \in DOMAIN timers : timers[i].st = "armed" => timers[i].due > now
  /\ rpc = "sleep" => rwake > now
  /\ lock = 0 => (lpc # "wait" /\ \A i \in DOMAIN timers : timers[i].st # "fired")
  /\ now' = now + 1
  /\ UNCHANGED <<uvars, wvars>>

\* somebody creates or removes PAUSE_FLAG (.auth_paused)
FlagToggle ==
  /\ mpc # "exit"
  /\ flag' = ~flag
  /\ UNCHANGED <<now, uvars, mpc, rpc, rwake, lpc, trigNow, timers, timerRef, first, last, lock>>

\* main, lines 222-233: the initial scan, skipped when PAUSE_FLAG exists
InitialScan ==
  /\ mpc = "scan"
  /\ mpc' = IF flag THEN "observe" ELSE "scanning"
  /\ UNCHANGED <<now, uvars, rpc, rwake, lpc, trigNow, timers, timerRef, first, last, lock, flag>>

\* main, lines 234-239: proc.wait() returns
ScanDone ==
  /\ mpc = "scanning"
  /\ mpc' = "observe"
  /\ UNCHANGED <<now, uvars, rpc, rwake, lpc, trigNow, timers, timerRef, first, last, lock, flag>>

\* main, lines 241-263: the observer is started, or sys.exit(3) with no root
StartObserver ==
  /\ mpc = "observe"
  /\ \E any_root \in BOOLEAN : mpc' = IF any_root THEN "watch" ELSE "exit"
  /\ UNCHANGED <<now, uvars, rpc, rwake, lpc, trigNow, timers, timerRef, first, last, lock, flag>>

\* main, lines 264-271: KeyboardInterrupt; the daemon threads end with the process
Interrupt ==
  /\ mpc = "watch"
  /\ mpc' = "exit"
  /\ UNCHANGED <<now, uvars, rpc, rwake, lpc, trigNow, timers, timerRef, first, last, lock, flag>>

\* Timer.cancel(): a timer whose interval has not elapsed never calls its function
Cancel(ts, i) ==
  IF i # 0 /\ ts[i].st = "armed" THEN [ts EXCEPT ![i] = NoTimer] ELSE ts

\* threading.Timer(self.debounce, self._maybe_run).start() on thread slot j
StartTimer(ts, j) == [ts EXCEPT ![j] = [st |-> "armed", due |-> now + DebounceSeconds]]

\* Handler.on_created / on_moved / on_modified -> trigger, lines 85-88
TriggerBegin ==
  /\ mpc = "watch"
  /\ lpc = "idle"
  /\ IF flag
       THEN UNCHANGED <<lpc, trigNow>>
       ELSE /\ lpc' = "wait"
            /\ trigNow' = now
  /\ UNCHANGED <<now, uvars, mpc, rpc, rwake, timers, timerRef, first, last, lock, flag>>

\* trigger, lines 89-97, under self._lock
TriggerLocked ==
  /\ mpc = "watch"
  /\ lpc = "wait"
  /\ lock = 0
  /\ first' = IF first = Null THEN trigNow ELSE first
  /\ last' = trigNow
  /\ LET ts == Cancel(timers, timerRef)
     IN \E j \in DOMAIN ts :
          /\ ts[j].st = "free"
          /\ timers' = StartTimer(ts, j)
          /\ timerRef' = j
  /\ lpc' = "idle"
  /\ UNCHANGED <<now, uvars, mpc, rpc, rwake, trigNow, lock, flag>>

\* the interval of a timer has elapsed: _maybe_run, lines 100-102
TimerFire(i) ==
  /\ mpc # "exit"
  /\ timers[i].st = "armed"
  /\ now >= timers[i].due
  /\ timers' = [timers EXCEPT ![i] = IF flag THEN NoTimer ELSE [@ EXCEPT !.st = "fired"]]
  /\ UNCHANGED <<now, uvars, mpc, rpc, rwake, lpc, trigNow, timerRef, first, last, lock, flag>>

\* a settle test that always holds
Settled_M(t) == TRUE

\* a settle test that never holds
Settled_Never(t) == FALSE

\* line 108: the burst has settled, or has lasted too long
Settled(t) ==
  \/ t - last >= SettleSeconds
  \/ t - (IF first = Null THEN t ELSE first) >= MaxDebounceSeconds

\* _maybe_run, lines 103-115, and _run up to Popen, lines 118-125; the thread of
\* the timer ends when _maybe_run returns, and the timer it has started takes
\* any thread slot that is free then
MaybeRun(i) ==
  /\ mpc # "exit"
  /\ timers[i].st = "fired"
  /\ lock = 0
  /\ IF last = Null
       THEN /\ timers' = [timers EXCEPT ![i] = NoTimer]
            /\ UNCHANGED <<timerRef, first, last, lock>>
       ELSE IF Settled(now)
         THEN IF flag
                THEN /\ first' = Null
                     /\ last' = Null
                     /\ timers' = [timers EXCEPT ![i] = NoTimer]
                     /\ UNCHANGED <<timerRef, lock>>
                ELSE /\ timers' = [timers EXCEPT ![i].st = "running"]
                     /\ lock' = i
                     /\ UNCHANGED <<timerRef, first, last>>
         ELSE /\ LET ts == [timers EXCEPT ![i] = NoTimer]
                 IN \E j \in DOMAIN ts :
                      /\ ts[j].st = "free"
                      /\ timers' = StartTimer(ts, j)
                      /\ timerRef' = j
              /\ UNCHANGED <<first, last, lock>>
  /\ UNCHANGED <<now, uvars, mpc, rpc, rwake, lpc, trigNow, flag>>

\* a return from _run that keeps the event window
RunDone_M(i) ==
  /\ mpc # "exit"
  /\ timers[i].st = "running"
  /\ timers' = [timers EXCEPT ![i] = NoTimer]
  /\ lock' = 0
  /\ UNCHANGED <<now, uvars, mpc, rpc, rwake, lpc, trigNow, timerRef, first, last, flag>>

\* proc.wait() returns in _run; _maybe_run, lines 110-111, and the lock is released
RunDone(i) ==
  /\ mpc # "exit"
  /\ timers[i].st = "running"
  /\ timers' = [timers EXCEPT ![i] = NoTimer]
  /\ first' = Null
  /\ last' = Null
  /\ lock' = 0
  /\ UNCHANGED <<now, uvars, mpc, rpc, rwake, lpc, trigNow, timerRef, flag>>

\* a rescan that is skipped while events are pending
RescanWake_M ==
  /\ mpc # "exit"
  /\ rpc = "sleep"
  /\ now >= rwake
  /\ IF flag \/ last # Null
       THEN /\ rwake' = now + RescanSeconds
            /\ rpc' = rpc
       ELSE /\ rpc' = "run"
            /\ rwake' = rwake
  /\ UNCHANGED <<now, uvars, mpc, lpc, trigNow, timers, timerRef, first, last, lock, flag>>

\* _rescan_loop, lines 136-143: the sleep ends; _run is called without self._lock
RescanWake ==
  /\ mpc # "exit"
  /\ rpc = "sleep"
  /\ now >= rwake
  /\ IF flag
       THEN /\ rwake' = now + RescanSeconds
            /\ rpc' = rpc
       ELSE /\ rpc' = "run"
            /\ rwake' = rwake
  /\ UNCHANGED <<now, uvars, mpc, lpc, trigNow, timers, timerRef, first, last, lock, flag>>

\* proc.wait() returns in the _run of _rescan_loop; the loop sleeps again
RescanDone ==
  /\ mpc # "exit"
  /\ rpc = "run"
  /\ rpc' = "sleep"
  /\ rwake' = now + RescanSeconds
  /\ UNCHANGED <<now, uvars, mpc, lpc, trigNow, timers, timerRef, first, last, lock, flag>>

InitSpecW ==
  /\ now = 0
  /\ pauseFile = Null
  /\ db = [p \in {} |-> Row(Null, Null, "pending", NoVid, NULL)]
  /\ tree = {"Clip.mp4"}
  /\ fs = [p \in Paths |-> Absent]
  /\ yt = {}
  /\ xfers = [p \in Paths |-> 0]
  /\ InitPass
  /\ InitW

NextW ==
  \/ WTick
  \/ FlagToggle
  \/ InitialScan
  \/ ScanDone
  \/ StartObserver
  \/ Interrupt
  \/ TriggerBegin
  \/ TriggerLocked
  \/ \E i \in 1..MaxTimers : TimerFire(i)
  \/ \E i \in 1..MaxTimers : MaybeRun(i)
  \/ \E i \in 1..MaxTimers : RunDone(i)
  \/ RescanWake
  \/ RescanDone

SpecW == InitSpecW /\ [][NextW]_vars

\* ------------------------------------------------------------------ SpecB
InitB == InitSpecW /\ flag = FALSE

NextB ==
  \/ WTick
  \/ InitialScan
  \/ ScanDone
  \/ StartObserver
  \/ Interrupt
  \/ TriggerBegin
  \/ TriggerLocked
  \/ \E i \in 1..MaxTimers : TimerFire(i)
  \/ \E i \in 1..MaxTimers : MaybeRun(i)
  \/ \E i \in 1..MaxTimers : RunDone(i)
  \/ RescanWake
  \/ RescanDone

SpecB == InitB /\ [][NextB]_vars

\* fair scheduling of the timers and threads of the watcher: time passes (no
\* infinity of events within one instant), a timer whose interval has elapsed
\* calls its function, a thread that asks for self._lock gets it when it stays
\* free, a sleep ends, and an uploader process terminates
FairW ==
  /\ SF_vars(WTick)
  /\ WF_vars(TriggerLocked)
  /\ \A i \in 1..MaxTimers :
       /\ WF_vars(TimerFire(i))
       /\ WF_vars(MaybeRun(i))
       /\ WF_vars(RunDone(i))
  /\ WF_vars(RescanWake)
  /\ WF_vars(RescanDone)

\* SpecW under fair scheduling
SpecWF == InitSpecW /\ [][NextW]_vars /\ FairW

\* ------------------------------------------------------------------ SpecQ
\* the watcher of SpecB while .pause_until holds a time that is still to come
InitQ ==
  /\ now = 0
  /\ pauseFile \in 1..MaxWTime
  /\ db = [p \in {} |-> Row(Null, Null, "pending", NoVid, NULL)]
  /\ tree = {"Clip.mp4"}
  /\ fs = [p \in Paths |-> Absent]
  /\ yt = {}
  /\ xfers = [p \in Paths |-> 0]
  /\ InitPass
  /\ InitW
  /\ flag = FALSE

SpecQ == InitQ /\ [][NextB]_vars

\* ------------------------------------------------------------------ SpecL
\* the table uploads as ensure_db creates it, a set of rows with the columns
\* id, path, size, mtime, sha1, status, video_id, error, created_at, updated_at;
\* db holds the table, now is time.time(), ev the last call

\* the values db_upsert is called with, besides the path: lines 452, 554, 560,
\* 562 and 598
UpsertArgs ==
  [size : Sizes, mtime : {0}, sha1 : {NULL}, status : {"pending"}, video_id : {NoVid},
   error : {NULL, MissingNote}] \cup
  [size : Sizes, mtime : {0}, sha1 : {NULL}, status : {"done"}, video_id : {ExtVid},
   error : {NULL}] \cup
  [size : Sizes, mtime : {0}, sha1 : {NULL}, status : {"error"}, video_id : {NoVid},
   error : {ErrText}]

\* INSERT OR REPLACE: the row in conflict is deleted and a new one inserted
db_upsert_sql_M(tbl, path, a, t) ==
  {r \in tbl : r.path # path} \cup
  {[id |-> Cardinality(tbl) + 1, path |-> path, size |-> a.size, mtime |-> a.mtime,
    sha1 |-> a.sha1, status |-> a.status, video_id |-> a.video_id, error |-> a.error,
    created_at |-> t, updated_at |-> t]}

\* db_upsert, lines 150-163, on all columns: INSERT ... ON CONFLICT(path) DO
\* UPDATE SET size, mtime, sha1, status, video_id, error, updated_at
db_upsert_sql(tbl, path, a, t) ==
  IF \E r \in tbl : r.path = path
    THEN {IF r.path = path
            THEN [r EXCEPT !.size = a.size, !.mtime = a.mtime, !.sha1 = a.sha1,
                           !.status = a.status, !.video_id = a.video_id,
                           !.error = a.error, !.updated_at = t]
            ELSE r : r \in tbl}
    ELSE tbl \cup
         {[id |-> Cardinality(tbl) + 1, path |-> path, size |-> a.size, mtime |-> a.mtime,
           sha1 |-> a.sha1, status |-> a.status, video_id |-> a.video_id,
           error |-> a.error, created_at |-> t, updated_at |-> t]}

InitL ==
  /\ now = 0
  /\ pauseFile = Null
  /\ db = {}
  /\ tree = {"Clip.mp4"}
  /\ fs = [p \in Paths |-> Absent]
  /\ yt = {}
  /\ xfers = [p \in Paths |-> 0]
  /\ InitPass
  /\ InitW
  /\ flag = FALSE

\* one call of db_upsert; time.time() is later at the next call
Upsert(p, a) ==
  /\ now < MaxCalls
  /\ db' = db_upsert_sql(db, p, a, now)
  /\ ev' = [op |-> "upsert", p |-> p, a |-> a,
            again |-> (ev.op = "upsert" /\ ev.p = p /\ ev.a = a)]
  /\ now' = now + 1
  /\ UNCHANGED <<pauseFile, tree, fs, yt, xfers, pc, passVars, wvars>>

\* the arguments of the db_upsert of line 452: the stat of the path, or None
\* for both when it fails, and the note
PendingArgs(p) ==
  [size |-> fs[p].size, mtime |-> fs[p].mtime, sha1 |-> NULL, status |-> "pending",
   video_id |-> NoVid, error |-> MissingNote]

\* lines 445-452: one db_upsert for each row whose video is missing
RECURSIVE MarkPending(_, _, _)
MarkPending(tbl, ps, t) ==
  IF ps = {}
    THEN tbl
    ELSE LET p == CHOOSE x \in ps : TRUE
         IN MarkPending(db_upsert_sql(tbl, p, PendingArgs(p), t), ps \ {p}, t)

\* a revalidation that deletes the rows whose video is missing
revalidate_sql_M(tbl, existing, t) ==
  {r \in tbl : ~(r.status = "done" /\ r.video_id # NoVid /\ r.video_id \notin existing)}

\* revalidate_done_entries, lines 429-452, on the table: the rows that are done
\* with a video id that is not among the existing ones become pending
revalidate_sql(tbl, existing, t) ==
  LET rows == {r \in tbl : r.status = "done" /\ r.video_id # NoVid}
      missing == {r.video_id : r \in rows} \ existing
  IN MarkPending(tbl, {r.path : r \in {x \in rows : x.video_id \in missing}}, t)

\* one run of revalidate_done_entries with reupload_if_missing_on_youtube set,
\* at the start of a pass; existing is what youtube_videos_exist returns
RevalidateL(existing) ==
  /\ now < MaxCalls
  /\ \E r \in db : r.status = "done" /\ r.video_id # NoVid
  /\ db' = revalidate_sql(db, existing, now)
  /\ ev' = [op |-> "revalidate", p |-> "none", a |-> existing, again |-> FALSE]
  /\ now' = now + 1
  /\ UNCHANGED <<pauseFile, tree, fs, yt, xfers, pc, passVars, wvars>>

NextL ==
  \/ \E p \in Paths, a \in UpsertArgs : Upsert(p, a)
  \/ \E existing \in SUBSET {ExtVid} : RevalidateL(existing)

SpecL == InitL /\ [][NextL]_vars

\* the threads of the watcher that have an uploader process running
RunningPasses ==
  (IF mpc = "scanning" THEN {"main"} ELSE {}) \cup
  (IF rpc = "run" THEN {"rescan"} ELSE {}) \cup
  {i \in DOMAIN timers : timers[i].st = "running"}

\* ------------------------------------------------------------------ claims
\* C1: when a pass has ended, a row is done exactly when its video_id is set
C1_DoneIffRemoteId ==
  (pc = "idle" /\ ev.op = "endpass") =>
    \A p \in DOMAIN db : (db[p].status = "done") <=> (db[p].video_id # NoVid)

\* C2: when a pass has ended, a row is error exactly when its error column is set
C2_ErrorIffLastError ==
  (pc = "idle" /\ ev.op = "endpass") =>
    \A p \in DOMAIN db : (db[p].status = "error") <=> (db[p].error # NULL)

\* C3: at most one uploader process runs at any time, whichever of the initial
\* scan, the rescan thread and the debounce timers started it
C3_OnePassAtATime == Cardinality(RunningPasses) <= 1

\* C4: the engine completes at most one transfer for a file whose fingerprint
\* does not change
C4_TransferredOnce == \A p \in Paths : xfers[p] <= 1

\* C5: after QuotaExceeded for a file, its row is pending, with no error text
\* and no video id
C5_QuotaLeavesPending ==
  ev.op = "quota" =>
    /\ ev.p \in DOMAIN db
    /\ db[ev.p].status = "pending"
    /\ db[ev.p].error = NULL
    /\ db[ev.p].video_id = NoVid

\* a quota abort for a file the engine had transferred before
C5_Witness == ev.op = "quota" /\ xfers[ev.p] >= 1

\* C6 as stated: the pause record is now + quota_cooldown_minutes * 60
C6_PauseExact ==
  ev.op = "quota" => pauseFile = ev.at + ev.cooldown * SecondsPerMinute

\* C6 as amended: the pause record is now + max(1, quota_cooldown_minutes) * 60
C6_PauseClamped ==
  ev.op = "quota" =>
    pauseFile = ev.at + (IF ev.cooldown >= 1 THEN ev.cooldown ELSE 1) * SecondsPerMinute

\* a quota abort at a later time with a cooldown below one minute
C6_Witness == ev.op = "quota" /\ ev.cooldown < 1 /\ ev.at > 0

PauseInForce == pauseFile # Null /\ now < pauseFile

\* C7: while the pause is in force no process is past the pause check, and a
\* step changes neither the ledger nor the pause record, creates no video and
\* is at most a pass that stops at the pause check
C7_PausedPassNoOp ==
  [][PauseInForce =>
       /\ pc = "idle"
       /\ pc' = "idle"
       /\ db' = db
       /\ pauseFile' = pauseFile
       /\ yt' \subseteq yt
       /\ (ev' = ev \/ ev'.op = "paused")]_vars

\* a pass was started while the pause was in force
C7_Witness == PauseInForce /\ ev.op = "paused"

\* the error carries one of the quota markers, in a reason or in its text
QuotaMarked(exc) == \E w \in exc.reasons \cup exc.msg : Lower(w) \in QuotaKeys

\* C8 as stated: an error with a quota marker raises QuotaExceeded, whatever its
\* status and type
C8_QuotaNeverRetried ==
  (ev.exc # NoExc /\ QuotaMarked(ev.exc)) => ev.op = "quota"

\* C8 as amended: an HttpError or ResumableUploadError with status 400, 403 or
\* 429 and a quota marker raises QuotaExceeded at once, whatever the retry budget
C8_QuotaStatusNeverRetried ==
  (ev.exc.kind = "http" /\ ev.exc.sc \in {400, 403, 429} /\ QuotaMarked(ev.exc)) =>
    (ev.op = "quota" /\ pc = "idle" /\ pauseFile # Null)

\* QuotaExceeded raised after a retry, with retry budget left
C8_Witness == ev.op = "quota" /\ ev.retry0 >= 1 /\ ev.retry0 < ev.max

\* what follows an error the engine retries: the same chunk, one more retry, a
\* sleep of Backoff^retry seconds
Retried ==
  /\ ev.op = "retry"
  /\ pc = "upload"
  /\ chunk = ev.chunk0
  /\ retry = ev.retry0 + 1
  /\ retry <= ev.max
  /\ ev.sleep = Backoff ^ retry

\* what follows an error the engine surfaces: the row of the file is error
Surfaced ==
  /\ ev.op = "error"
  /\ db[ev.p].status = "error"

RetryPolicy == IF ev.retry0 < ev.max THEN Retried ELSE Surfaced

\* an item that failed in this pass stays error to the end of the pass
FailedStayError == \A p \in failed : db[p].status = "error"

\* C9 as stated: every 5xx error follows the retry policy
C9_Retry5xx ==
  /\ (ev.exc.kind = "http" /\ ev.exc.sc \in 500..599) => RetryPolicy
  /\ FailedStayError

\* C9 as amended: an error with status 500, 502, 503 or 504 follows the retry policy
C9_RetryTransient ==
  /\ (ev.exc.kind = "http" /\ ev.exc.sc \in {500, 502, 503, 504}) => RetryPolicy
  /\ FailedStayError

\* a transient error on the second chunk with the budget used up, surfaced, and
\* the pass going on
C9_Witness ==
  /\ ev.op = "error" /\ ev.exc.sc = 503
  /\ ev.retry0 = MaxRetriesBound /\ ev.chunk0 = 1
  /\ ev.p \in failed

\* C10 as stated: every error that is neither 5xx nor quota-marked follows the
\* retry policy
C10_RetryEveryOther ==
  (ev.exc # NoExc /\ ev.exc.sc \notin 500..599 /\ ~QuotaMarked(ev.exc)) => RetryPolicy

\* C10 as amended: an exception that is no HttpError follows the retry policy; an
\* HttpError with a status other than 500, 502, 503, 504 that is no quota error
\* is surfaced at once
C10_RetryNonHttp ==
  /\ ev.exc.kind = "other" => RetryPolicy
  /\ (/\ ev.exc.kind = "http"
      /\ ev.exc.sc \notin {500, 502, 503, 504}
      /\ ~(ev.exc.sc \in {400, 403, 429} /\ QuotaMarked(ev.exc))) => Surfaced

\* a 404 surfaced with the whole retry budget left
C10_Witness == ev.op = "error" /\ ev.exc.sc = 404 /\ ev.retry0 = 0 /\ ev.max = MaxRetriesBound

\* C11: when resumable_upload returns to main, the value it returns is a video id
C11_ReturnsId == pc = "returned" => ret # NoVid

\* C12 as stated: with the files and the platform standing still, only the
\* first pass over a file transfers it: the engine returns an id only for a file
\* that had no row when its iteration began
C12_SecondPassNoTransfer == (pc = "returned" /\ ret # NoVid) => old_status = "none"

\* C12 as amended: with the files and the platform standing still, a row that a
\* finished iteration left done is never written again, and its file is never
\* transferred again
C12_DoneUntouched ==
  [][\A p \in DOMAIN db :
       (db[p].status = "done" /\ cur # p) =>
         (db'[p] = db[p] /\ xfers'[p] = xfers[p])]_vars

\* a later pass has skipped a file that an earlier pass transferred
C12_Witness == ev.op = "skip" /\ xfers[ev.p] = 1 /\ db[ev.p].status = "done"

\* C13: when the loop rewrites the row of a file that was done (its size or
\* its modification time has changed), the row becomes pending and the engine is
\* invoked for the file
C13_ChangedReprocessed ==
  [][\A p \in DOMAIN db :
       (pc = "loop" /\ db[p].status = "done" /\ db'[p] # db[p]) =>
         (db'[p].status = "pending" /\ pc' = "upload" /\ cur' = p)]_vars

\* the step is the iteration of the loop for file p
Iterates(p) ==
  /\ pc = "loop"
  /\ pc' # "idle"
  /\ fs[p] # Absent
  /\ (p \in todo /\ p \notin todo') \/ (pc' = "upload" /\ cur' = p)

\* the stem of p equals, case-insensitively, a title of the remote index
TitleInIndex(p) == \E k \in DOMAIN titles : Lower(Stem(p)) = k

\* C14: the iteration for a file whose stem matches a title of the remote index
\* and whose row is not done and unchanged writes the row as done with the id
\* of the index, does not call the engine, and is the last one for the file in
\* the pass
C14_MatchMarksDone ==
  [][\A p \in Paths :
       (/\ Iterates(p)
        /\ TitleInIndex(p)
        /\ ~(p \in DOMAIN db /\ db[p].status = "done" /\ Unchanged(db[p], fs[p]))) =>
         (/\ p \in DOMAIN db'
          /\ db'[p].status = "done"
          /\ db'[p].video_id = titles[Lower(Stem(p))]
          /\ pc' = "loop"
          /\ p \notin todo'
          /\ xfers' = xfers)]_vars

\* a file with no transfer was marked done with the id of a video whose title
\* differs from its stem in case
C14_Witness ==
  /\ ev.op = "marked" /\ pc = "loop"
  /\ xfers[ev.p] = 0
  /\ db[ev.p].video_id = ExtVid

\* the step is the revalidation of a pass
Revalidates == pc = "reval" /\ pc' = "hydrate"

\* the row is done with a video id the platform does not have
MissingRemotely(p) ==
  db[p].status = "done" /\ db[p].video_id # NoVid /\ db[p].video_id \notin yt

\* the row has been reset to pending with the note
ResetWithNote(r) == r.status = "pending" /\ r.video_id = NoVid /\ r.error = MissingNote

C16_FailOpen ==
  [][/\ ev'.op = "reval-failed" => (pc' = "hydrate" /\ db' = db)
     /\ ev'.op = "hydrate-failed" => (pc' = "loop" /\ titles' = EmptyMap /\ todo' = Paths)
     /\ \A p \in Paths :
          (Iterates(p) /\ p \notin DOMAIN db /\ ~TitleInIndex(p)) =>
            (pc' = "upload" /\ cur' = p /\ db'[p].status = "pending")]_vars

\* with hydration on and a video of the same title on the channel, a file with
\* no row is in the engine: the title listing of the pass had failed
C16_Witness ==
  /\ pc = "upload" /\ old_status = "none"
  /\ cfg.hydrate /\ titles = EmptyMap
  /\ ExtVid \in yt /\ Lower(ExtVid[1]) = Lower(Stem(cur))

\* a timer whose interval has elapsed ends at the test of PAUSE_FLAG
FireSkipped(i) == timers[i].st = "armed" /\ timers'[i].st = "free" /\ lpc' = lpc

\* a timer whose interval has elapsed takes the lock and decides
Decides(i) == timers[i].st = "fired" /\ timers'[i].st # "fired"

\* an event is pending and it is neither true that the last event is at least
\* SettleSeconds old nor that the first is at least MaxDebounceSeconds old
Unsettled ==
  /\ last # Null
  /\ now - last < SettleSeconds
  /\ first # Null => now - first < MaxDebounceSeconds

\* the step starts a new timer for DebounceSeconds
Rearmed ==
  \E j \in DOMAIN timers :
    /\ timers[j].st \in {"free", "fired"}
    /\ timers'[j] = [st |-> "armed", due |-> now + DebounceSeconds]

\* C17 as stated: a timer that fires starts a pass only when the burst is not
\* unsettled, and re-arms itself without a pass when it is
C17_FireDecides ==
  [][\A i \in DOMAIN timers :
       (FireSkipped(i) \/ Decides(i)) =>
         /\ timers'[i].st = "running" => ~Unsettled /\ last # Null
         /\ Unsettled => (timers'[i].st # "running" /\ Rearmed)]_vars

\* C17 as amended: a timer that fires while PAUSE_FLAG exists ends and changes
\* nothing else; one that fires without the flag starts a pass only when an
\* event is pending and the burst is not unsettled, and re-arms a timer
\* without a pass when the burst is unsettled
C17_FireDecidesUnlessPaused ==
  [][\A i \in DOMAIN timers :
       /\ FireSkipped(i) =>
            (flag /\ \A j \in DOMAIN timers \ {i} : timers'[j] = timers[j])
       /\ Decides(i) =>
            /\ timers'[i].st = "running" => ~Unsettled /\ last # Null
            /\ Unsettled => (timers'[i].st # "running" /\ Rearmed /\ lock' = 0)]_vars

\* an unsettled burst: a timer has re-armed, and two timers are pending
C17_Witness ==
  /\ last # Null /\ now - last < SettleSeconds
  /\ Cardinality({j \in DOMAIN timers : timers[j].st = "armed"}) = 2
  /\ lock = 0

\* C18: while events are pending and no timer has fired, the first event of the
\* burst is not older than MaxDebounceSeconds plus one timer interval: by then a
\* timer has fired and started the pass
C18_CeilingForcesPass ==
  (first # Null /\ \A j \in DOMAIN timers : timers[j].st \in {"free", "armed"}) =>
    now - first <= MaxDebounceSeconds + DebounceSeconds

\* no event is pending, or a pass of a timer is running, or a timer is still
\* to fire or to decide
Covered ==
  \/ last = Null
  \/ lock # 0
  \/ \E j \in DOMAIN timers : timers[j].st \in {"armed", "fired"}

TimerPass == \E i \in DOMAIN timers : timers[i].st = "running"

\* the event times whose debounce timer is due within the modelled time
EventTimes == 0..(MaxWTime - DebounceSeconds)

\* trigger has just recorded an event and armed its timer (line 97)
Recorded ==
  /\ last \in EventTimes
  /\ timerRef # 0
  /\ timers[timerRef] = [st |-> "armed", due |-> last + DebounceSeconds]

\* the watcher has been stopped, or the burst has gone on to the end of the
\* modelled time
Discharged == mpc = "exit" \/ (last # Null /\ last \notin EventTimes)

\* C20 as stated: once an event of a burst has been recorded, a pass (of a
\* timer or of the periodic rescan) eventually starts; a behaviour that
\* reaches the end of the modelled time without PAUSE_FLAG is given the pass
\* of the next periodic rescan
C20_PassAfterBurst ==
  Recorded ~> (TimerPass \/ rpc = "run" \/ Discharged \/ (now = MaxWTime /\ ~flag))

\* C20 as amended: once an event of a burst has been recorded, a timer
\* eventually starts a pass, unless PAUSE_FLAG comes to exist
C20_PassAfterBurstUnlessPaused ==
  Recorded ~> (TimerPass \/ flag \/ Discharged)

\* the pass of a timer runs for a single event, DebounceSeconds after it
C20_Witness ==
  /\ ~flag
  /\ last # Null /\ first = last /\ last \in EventTimes
  /\ now = last + DebounceSeconds
  /\ \E i \in DOMAIN timers : timers[i].st = "running"

\* the uploader processes started by a debounce timer or by the periodic rescan
TriggeredPasses == RunningPasses \ {"main"}

\* C21: while the quota pause is in force (.pause_until holds a time that is
\* still to come), neither a debounce timer nor the periodic rescan starts an
\* uploader process
C21_PauseSuppressesTriggers ==
  [][PauseInForce => TriggeredPasses' \subseteq TriggeredPasses]_vars

\* C22, the part "nor schedules a pass": while an uploader process is running,
\* no step of the watcher arms a timer
C22_TriggerDroppedDuringPass ==
  [][RunningPasses # {} =>
       \A j \in DOMAIN timers : timers'[j].st = "armed" => timers'[j] = timers[j]]_vars

\* C23: after an upload error has surfaced for a file, its row is error with
\* the text of the exception and the pass is back in the loop, with the other
\* discovered files still to visit
C23_ErrorContinues ==
  ev.op = "error" =>
    /\ db[ev.p].status = "error"
    /\ db[ev.p].error = ErrText
    /\ pc = "loop"
    /\ todo = Paths \ {ev.p}

\* C24: the notification after a completed upload, sent or not, leaves the
\* ledger as it is (the row done with its video id) and the pass in the loop
\* with the same files still to visit
C24_NotifyNotFatal ==
  [][pc = "notify" =>
       /\ db' = db
       /\ pc' = "loop"
       /\ todo' = todo \ {cur}]_vars

\* C25: after a pass whose authentication failed, the process has ended before
\* its loop and PAUSE_FLAG exists
C25_AuthFailSetsFlag ==
  ev.op = "authfail" => (pc = "idle" /\ flag)

\* the rows of the table with path p
RowsOf(tbl, p) == {r \in tbl : r.path = p}

\* C26: a call of db_upsert never changes the created_at of a row that exists,
\* and a call with the arguments of the call before it leaves one row for the
\* path, equal to the row the first call left in every column but updated_at
\* (id and created_at included), and leaves the other rows alone
C26_UpsertIdempotent ==
  [][ev'.op = "upsert" =>
       /\ \A r \in db : \E q \in db' : q.path = r.path /\ q.created_at = r.created_at
       /\ ev'.again =>
            /\ {r \in db' : r.path # ev'.p} = {r \in db : r.path # ev'.p}
            /\ Cardinality(RowsOf(db', ev'.p)) = 1
            /\ \A r \in RowsOf(db, ev'.p) : \A q \in RowsOf(db', ev'.p) :
                 /\ [q EXCEPT !.updated_at = r.updated_at] = r
                 /\ q.updated_at = now]_vars

\* the same call was made twice, on a table that holds another row as well
C26_Witness ==
  /\ ev.op = "upsert" /\ ev.again
  /\ \E r \in db : r.path = ev.p /\ r.updated_at > r.created_at
  /\ \E r \in db : r.path # ev.p

\* C27: the observer thread is never inside trigger, waiting for self._lock,
\* while a timer holds the lock for the uploader process it has started
C27_ListenerNeverBlocked ==
  ~(lpc = "wait" /\ lock # 0 /\ timers[lock].st = "running")

\* C28: the step in which the watcher, stopped by KeyboardInterrupt, releases
\* the observer and exits is taken only when no uploader process is running
C28_ShutdownDrains ==
  [][(mpc = "watch" /\ mpc' = "exit") => RunningPasses = {}]_vars

\* the step is the end of a sleep of _rescan_loop
RescanWakes == rpc = "sleep" /\ (rpc' # rpc \/ rwake' # rwake)

\* C29 as stated: every sleep of _rescan_loop ends with the start of an
\* uploader process
C29_RescanAlwaysRuns == [][RescanWakes => rpc' = "run"]_vars

\* C29 as amended: a sleep of _rescan_loop ends RescanSeconds after the loop
\* began or after its last uploader process ended; when it ends, an uploader
\* process is started unless PAUSE_FLAG exists, whatever events are pending;
\* with the flag the loop sleeps again; and every sleep that ends within the
\* modelled time does end
C29_RescanUnlessPaused ==
  /\ [][RescanWakes =>
          /\ now >= rwake
          /\ IF flag THEN rpc' = "sleep" /\ rwake' = now + RescanSeconds
                     ELSE rpc' = "run"]_vars
  /\ [][(rpc = "run" /\ rpc' # "run") => (rpc' = "sleep" /\ rwake' = now + RescanSeconds)]_vars
  /\ (rpc = "sleep" /\ rwake <= MaxWTime) ~> (rpc = "run" \/ flag \/ mpc = "exit")

\* the second periodic rescan runs although no event ever arrived
C29_Witness ==
  /\ rpc = "run" /\ ~flag
  /\ now >= RescanSeconds + RescanSeconds
  /\ first = Null /\ last = Null /\ lpc = "idle"
  /\ \A j \in DOMAIN timers : timers[j].st = "free"

\* C30: the step that handles QuotaExceeded ends the process; it writes no row,
\* transfers nothing and creates no video, and the files the loop had not
\* reached are not visited: no iteration follows before a new process starts
C30_QuotaStopsPass ==
  /\ [](ev.op = "quota" => (pc = "idle" /\ todo = {} /\ cur = "none"))
  /\ [][(pc = "upload" /\ ev'.op = "quota") =>
          /\ pc' = "idle"
          /\ db' = db
          /\ xfers' = xfers
          /\ yt' = yt]_vars
  /\ [][pc = "idle" => (pc' \in {"idle", "reval"} /\ db' = db)]_vars

\* QuotaExceeded has ended a pass that had another file to visit; that file is
\* present and has no row
C30_Witness ==
  /\ ev.op = "quota" /\ pc = "idle"
  /\ \E q \in Paths \ {ev.p} : fs[q] # Absent /\ q \notin DOMAIN db

\* the row of p is pending
IsPending(p) == p \in DOMAIN db /\ db[p].status = "pending"

\* C31 as stated, the part "the next pass starts a fresh upload session": the
\* iteration of a pass for a file whose row is pending invokes the engine, from
\* the first chunk
C31_PendingReuploaded ==
  [][\A p \in Paths :
       (Iterates(p) /\ IsPending(p)) =>
         (pc' = "upload" /\ cur' = p /\ chunk' = 0 /\ retry' = 0)]_vars

\* C31 as amended: while the engine runs for a file its row is pending with no
\* video id; the engine is entered with the row just written as pending, at the
\* first chunk and with no retry used; a row becomes done only when the engine
\* has returned for it or when the title index has its title; a crash while the
\* engine runs leaves the ledger as it is; and the iteration of a later pass for
\* a pending row invokes the engine from the first chunk unless the title index
\* has the title of the file
C31_PendingAroundUpload ==
  /\ [](pc = "upload" =>
          (cur \in DOMAIN db /\ db[cur].status = "pending" /\ db[cur].video_id = NoVid))
  /\ [][(pc # "upload" /\ pc' = "upload") =>
          (chunk' = 0 /\ retry' = 0 /\ cur' \in DOMAIN db' /\ db'[cur'].status = "pending")]_vars
  /\ [][\A p \in DOMAIN db' :
          ((p \notin DOMAIN db \/ db[p].status # "done") /\ db'[p].status = "done") =>
            \/ pc = "returned" /\ p = cur
            \/ pc = "loop" /\ \E k \in DOMAIN titles : Lower(Stem(p)) = k]_vars
  /\ [][(pc = "upload" /\ ev'.op = "crash") => (pc' = "idle" /\ db' = db)]_vars
  /\ [][\A p \in Paths :
          (Iterates(p) /\ IsPending(p) /\ ~\E k \in DOMAIN titles : Lower(Stem(p)) = k) =>
            (pc' = "upload" /\ cur' = p /\ chunk' = 0 /\ retry' = 0)]_vars

\* a pass was killed while the engine ran for a file with two chunks; no video
\* was created and the row is pending
C31_Witness ==
  /\ ev.op = "crash" /\ pc = "idle"
  /\ ev.p \in DOMAIN db /\ db[ev.p].status = "pending"
  /\ fs[ev.p] # Absent /\ fs[ev.p].size = 2
  /\ yt = {} /\ xfers[ev.p] = 0

\* C32: when an uploader process ends, whichever thread started it, the event
\* window is empty
C32_WindowClearedAfterPass ==
  [][(RunningPasses' # RunningPasses /\ RunningPasses' \subseteq RunningPasses) =>
       (first' = Null /\ last' = Null)]_vars

\* the timers that have been started and whose interval has not elapsed
LiveTimers == {j \in DOMAIN timers : timers[j].st = "armed"}

\* C33: at any time at most one debounce timer is armed
C33_OneLiveTimer == Cardinality(LiveTimers) <= 1

\* the step is a retry of resumable_upload: retry += 1 and a backoff sleep
IsRetryStep == pc = "upload" /\ ev'.op \in {"retry", "noid"}

\* C34: within one call of resumable_upload the counter starts at 0, every
\* retry of either except clause adds one to it and sleeps 2^retry seconds, no
\* other step of the call (an accepted chunk included) changes it or sleeps,
\* and it never exceeds max_retries
C34_SharedRetryBudget ==
  /\ [](pc \in {"upload", "returned"} => retry \in 0..cfg.max_retries)
  /\ [][(pc # "upload" /\ pc' = "upload") => retry' = 0]_vars
  /\ [][(pc = "upload" /\ pc' \in {"upload", "returned"}) =>
          IF IsRetryStep
            THEN /\ retry < cfg.max_retries
                 /\ retry' = retry + 1
                 /\ ev'.sleep = 2 ^ retry'
            ELSE /\ retry' = retry
                 /\ ev'.sleep = 0]_vars
  /\ [][(pc = "upload" /\ ev'.sleep # 0) => IsRetryStep]_vars

\* the last retry the budget allows happens on the second chunk, after an
\* exception that is not an HttpError, and sleeps 4 seconds
C34_Witness ==
  /\ pc = "upload"
  /\ ev.op = "retry"
  /\ ev.exc.kind = "other"
  /\ chunk = 1
  /\ retry = 2
  /\ cfg.max_retries = 2
  /\ ev.sleep = 4

\* calls of request.next_chunk() that have returned or raised so far in the
\* running call of resumable_upload: one per accepted chunk and one per retry
Submissions == chunk + retry

\* the bound of C35 alone: a call that is still running has room for one more
\* submission, and every step of it either ends it or is one submission
C35_SubmissionsBounded ==
  /\ [](pc = "upload" => Submissions + 1 <= NChunks(fp) + cfg.max_retries)
  /\ [][(pc = "upload" /\ pc' = "upload") => Submissions' = Submissions + 1]_vars

\* C35: resumable_upload ends after at most NChunks + max_retries calls of
\* next_chunk, and it ends with a video id returned, with QuotaExceeded, or
\* with an exception raised to main
C35_UploadTerminates ==
  /\ C35_SubmissionsBounded
  /\ [][(pc = "upload" /\ pc' # "upload") =>
          \/ pc' = "returned" /\ ret' \in Vids
          \/ ev'.op \in {"quota", "error"}]_vars

\* the paths that have a row in the table
LedgerPaths(tbl) == {r.path : r \in tbl}

\* C36: no call of db_upsert and no run of revalidate_done_entries removes a
\* path from the table, a path of the table has exactly one row, and the
\* created_at (and the id) of a row that exists never changes
C36_RowsNeverDeleted ==
  /\ [][LedgerPaths(db) \subseteq LedgerPaths(db')]_vars
  /\ [](\A p \in LedgerPaths(db) : Cardinality(RowsOf(db, p)) = 1)
  /\ [][\A r \in db : \A q \in RowsOf(db', r.path) :
          q.created_at = r.created_at /\ q.id = r.id]_vars

\* a revalidation has found the video of one row missing and has set the row
\* to pending, on a table that holds two rows
C36_Witness ==
  /\ ev.op = "revalidate"
  /\ Cardinality(db) = 2
  /\ \E r \in db :
       /\ r.status = "pending"
       /\ r.error = MissingNote
       /\ r.size = Null
       /\ r.updated_at = now - 1
       /\ r.created_at < r.updated_at

====
